---- MODULE Spec2Model ----
(***************************************************************************)
(* A model of the Skype backend adapter (src/skype.py): the SkypeBackend   *)
(* object, the identifier and room wrappers, and the native Skype client   *)
(* it is attached to.  The native client is the environment: it owns the   *)
(* buddy list, the conversations, the directory and the pending contact    *)
(* requests, and it delivers events to the backend's handlers on its own   *)
(* thread once the backend is attached.                                    *)
(***************************************************************************)
EXTENDS Integers, Sequences, FiniteSets, TLC

VARIABLES
    config,          \* the SKYPE_ACCEPT_CONTACT_REQUESTS option of the config object
    pc,              \* where serve_forever is
    bot_identifier,  \* SkypeBackend.bot_identifier (Unset until serve_forever sets it)
    friends,         \* skype.Friends: handles on the buddy list
    chats,           \* skype.Chats: the conversations the client knows
    directory,       \* the users the Skype directory knows
    cache,           \* the lru_cache of build_identifier
    firstRet,        \* history: the first identifier build_identifier returned per text
    chatStatus,      \* Chat.Status per conversation
    chatMembers,     \* Chat.Members per conversation
    waiting,         \* skype.UsersWaitingAuthorization
    inflight,        \* authorization-request events dispatched, handler not yet run
    requested,       \* history: contact requests that have arrived, per user
    authCalls,       \* history: SetBuddyStatusPendingAuthorization calls per user
    last             \* history: the last adapter operation, its calls and its outcome

vars == <<config, pc, bot_identifier, friends, chats, directory, cache, firstRet,
          chatStatus, chatMembers, waiting, inflight, requested, authCalls, last>>

-----------------------------------------------------------------------------
(* The universe the inputs are drawn from.                                 *)

Handles == {"ann", "bob"}
BotHandle == "bot"
ChatIds == {"c1", "c2"}
Texts == {"ann", "bob", "dev"}
Bodies == {"hi", "*hi*"}
MessageStatuses == {"RECEIVED", "SENT"}
MessageTypes == {"chat", "groupchat"}
ConfigOptions == {"absent", "True", "False"}
ChatStatuses == {"MULTI_SUBSCRIBED", "UNSUBSCRIBED"}
MarkAsSeenOutcomes == {"ok", "SkypeError", "SkypeAPIError"}
CallbackOutcomes == {"ok", "RuntimeError"}
SendOutcomes == {"ok", "SkypeError"}

\* Chat.Name of a conversation; the second one is named like a user handle.
ChatName(c) == IF c = "c1" THEN "dev" ELSE "ann"

\* User.FullName, by which the directory search also matches.
FullNameTokens(u) == IF u = "ann" THEN {"ann"} ELSE {"bob", "dev"}

\* skype.SearchForUsers(text): directory users whose handle or name matches.
SearchForUsers(t) == {u \in directory : u = t \/ t \in FullNameTokens(u)}

\* md_converter.convert(body): markdown rendered as plain text.
Convert(b) == IF b = "*hi*" THEN "hi" ELSE b

None == "None"
Unset == [kind |-> "unset"]

-----------------------------------------------------------------------------
(* Identifier and room wrappers.  An attribute an object has is a field of *)
(* its record, so hasattr(x, 'room') is "room" \in DOMAIN x.                *)

SkypeUser(h) == [kind |-> "user", handle |-> h]
SkypeChatroom(c) == [kind |-> "room", chat |-> c]
SkypeChatroomOccupant(h, c) ==
    [kind |-> "occupant", handle |-> h, room |-> SkypeChatroom(c)]

Users == {SkypeUser(h) : h \in Handles \cup {BotHandle}}
Rooms == {SkypeChatroom(c) : c \in ChatIds}
Occupants == {SkypeChatroomOccupant(h, c) : h \in Handles \cup {BotHandle}, c \in ChatIds}
Identifiers == Users \cup Rooms \cup Occupants

Message(body, type, frm, to) == [body |-> body, type |-> type, frm |-> frm, to |-> to]
NoMsg == Message("", "none", Unset, Unset)

\* The outcome of a call: a returned value or a raised exception.
Ret(v) == [ok |-> TRUE, val |-> v]
Raise(e) == [ok |-> FALSE, exc |-> e]
NoRes == [ok |-> FALSE, exc |-> None]

\* SKYPE_ACCEPT_CONTACT_REQUESTS as __init__ stores it.
AcceptContactRequests == IF config = "absent" THEN TRUE ELSE config = "True"

\* SkypeChatroom.joined
Joined(c) == chatStatus[c] # "UNSUBSCRIBED"

\* The record of an adapter operation.
Op(op, arg, res, calls, raised, propagated, hit, origin) ==
    [op |-> op, arg |-> arg, res |-> res, calls |-> calls, raised |-> raised,
     propagated |-> propagated, bot |-> bot_identifier, hit |-> hit, origin |-> origin]
NoOp == [op |-> "none", arg |-> None, res |-> NoRes, calls |-> <<>>, raised |-> {},
         propagated |-> None, bot |-> Unset, hit |-> FALSE, origin |-> NoMsg]

CallsOf(calls, fn) == SelectSeq(calls, LAMBDA c : c.fn = fn)

-----------------------------------------------------------------------------
(* Construction: __init__ stores the option, creates the native client and *)
(* registers the two event handlers; nothing is attached yet.              *)

InitWith(options) ==
    /\ config \in options
    /\ pc = "init"
    /\ bot_identifier = Unset
    /\ friends = {}
    /\ chats = ChatIds
    /\ directory = {"ann"}
    /\ cache = [t \in Texts |-> Unset]
    /\ firstRet = [t \in Texts |-> Unset]
    /\ chatStatus = [c \in ChatIds |-> "MULTI_SUBSCRIBED"]
    /\ chatMembers = [c \in ChatIds |->
                        IF c = "c1" THEN {BotHandle, "ann", "bob"} ELSE {BotHandle, "ann"}]
    /\ waiting = {}
    /\ inflight = {}
    /\ requested = [u \in Handles |-> 0]
    /\ authCalls = [u \in Handles |-> 0]
    /\ last = NoOp

Init == InitWith(ConfigOptions)
InitDefault == InitWith({"absent"})

\* The native client delivers events from Attach() until the process ends.
Serving == {"attached", "connected", "identified", "sleeping"}

lookupVars == <<friends, chats, directory, cache, firstRet>>
roomVars == <<chatStatus, chatMembers>>
contactVars == <<waiting, inflight, requested, authCalls>>
serveVars == <<config, pc, bot_identifier>>

-----------------------------------------------------------------------------
(* Incoming messages.                                                      *)

\* A conversation has more than this many members: a groupchat.
GroupThreshold == 2

\* The Skype4Py ChatMessage objects an event can carry.
SkypeMsgs ==
    {m \in [Status : MessageStatuses, Chat : chats, Sender : Handles \cup {BotHandle},
            Body : Bodies] : m.Sender \in chatMembers[m.Chat]}

\* IsGroupchat with the comparison off by one.
IsGroupchatAtLeast(m) == Cardinality(chatMembers[m.Chat]) >= GroupThreshold

\* is_groupchat: by the member count, Chat.Type being unusable.
IsGroupchat(m) == Cardinality(chatMembers[m.Chat]) > GroupThreshold

\* _make_message: reading self.bot_identifier before serve_forever has set it
\* raises AttributeError.
MakeMessage(m) ==
    IF IsGroupchat(m)
    THEN Ret(Message(m.Body, "groupchat",
                     SkypeChatroomOccupant(m.Sender, m.Chat), SkypeChatroom(m.Chat)))
    ELSE IF bot_identifier = Unset
         THEN Raise("AttributeError")
         ELSE Ret(Message(m.Body, "chat", SkypeUser(m.Sender), bot_identifier))

\* The test of _message_event_handler: the message's own Status, not the
\* handler's status argument.
IsReceived(m, status) == m.Status = "RECEIVED"

\* MarkAsSeenCaught as a bare except.
MarkAsSeenCaughtAny(e) == TRUE

\* The except clause around MarkAsSeen().
MarkAsSeenCaught(e) == e = "SkypeError"

\* _message_event_handler(skype_msg, status); cb is what the framework's
\* callback_message does, seen what MarkAsSeen() does.
MessageEventHandler(m, status, cb, seen) ==
    LET received == IsReceived(m, status)
        made == IF received THEN MakeMessage(m) ELSE NoRes
        handed == received /\ made.ok
        early == IF received /\ ~made.ok THEN <<made.exc, "_make_message">>
                 ELSE IF handed /\ cb # "ok" THEN <<cb, "callback_message">>
                 ELSE <<None, None>>
        marks == early[1] = None
        cbCalls == IF handed THEN <<[fn |-> "callback_message", msg |-> made.val]>>
                   ELSE <<>>
        seenCalls == IF marks THEN <<[fn |-> "MarkAsSeen", msg |-> m]>> ELSE <<>>
        raised == (IF marks THEN {} ELSE {early})
                  \cup (IF marks /\ seen # "ok" THEN {<<seen, "MarkAsSeen">>} ELSE {})
        propagated == IF ~marks THEN early[1]
                      ELSE IF seen # "ok" /\ ~MarkAsSeenCaught(seen) THEN seen
                      ELSE None
    IN Op("message_event",
          [msg |-> m, status |-> status, members |-> Cardinality(chatMembers[m.Chat])],
          made,
          cbCalls \o seenCalls, raised, propagated, FALSE, NoMsg)

\* The handler calls callback_message only with a message it has made, and
\* MarkAsSeen() only when nothing was raised before: cb and seen are
\* outcomes of calls the handler makes.
Made(m, status, cb, seen) ==
    LET handed == IsReceived(m, status) /\ MakeMessage(m).ok
    IN /\ cb # "ok" => handed
       /\ seen # "ok" => (IsReceived(m, status) => handed /\ cb = "ok")

MessageEvent(m, status, cb, seen) ==
    /\ pc \in Serving
    /\ Made(m, status, cb, seen)
    /\ last' = MessageEventHandler(m, status, cb, seen)
    /\ UNCHANGED <<serveVars, lookupVars, roomVars, contactVars>>

-----------------------------------------------------------------------------
(* Replies and outgoing messages.                                          *)

\* The message the framework was handed by the last message event, if any.
Handed == IF last.op = "message_event" /\ last.res.ok /\ Len(last.calls) > 0
          THEN last.res.val ELSE NoMsg

\* BuildReplyOp without the assignment of the recipient.
BuildReplyOpKeepsRecipient(mess, text, private) ==
    IF bot_identifier = Unset
    THEN Raise("AttributeError")
    ELSE Ret([mess EXCEPT !.frm = bot_identifier, !.body = text,
                          !.type = IF private THEN "chat" ELSE @])

\* build_reply(mess, text, private): the message is changed in place, the
\* recipient first; self.bot_identifier raises AttributeError while unset.
BuildReplyOp(mess, text, private) ==
    LET m1 == [mess EXCEPT !.to = mess.frm]
    IN IF bot_identifier = Unset
       THEN Raise("AttributeError")
       ELSE Ret([m1 EXCEPT !.frm = bot_identifier, !.body = text,
                           !.type = IF private THEN "chat" ELSE @])

BuildReply(text, private) ==
    /\ Handed # NoMsg
    /\ LET r == BuildReplyOp(Handed, text, private)
       IN last' = Op("build_reply", [mess |-> Handed, text |-> text, private |-> private],
                     r, <<>>,
                     IF r.ok THEN {} ELSE {<<r.exc, "build_reply">>},
                     IF r.ok THEN None ELSE r.exc, FALSE, Handed)
    /\ UNCHANGED <<serveVars, lookupVars, roomVars, contactVars>>

\* SendTarget without the test of the message type.
SendTargetByHandle(mess) ==
    IF "handle" \in DOMAIN mess.to
    THEN Ret([fn |-> "Skype.SendMessage", target |-> mess.to.handle])
    ELSE IF "chat" \in DOMAIN mess.to
         THEN Ret([fn |-> "Chat.SendMessage", target |-> mess.to.chat])
         ELSE Raise("AttributeError")

\* The native call send_message makes for a message, or the AttributeError of
\* a recipient without the attribute the branch reads.
SendTarget(mess) ==
    IF mess.type = "chat"
    THEN IF "handle" \in DOMAIN mess.to
         THEN Ret([fn |-> "Skype.SendMessage", target |-> mess.to.handle])
         ELSE Raise("AttributeError")
    ELSE IF "room" \in DOMAIN mess.to
         THEN Ret([fn |-> "Chat.SendMessage", target |-> mess.to.room.chat])
         ELSE IF "chat" \in DOMAIN mess.to
              THEN Ret([fn |-> "Chat.SendMessage", target |-> mess.to.chat])
              ELSE Raise("AttributeError")

\* send_message(mess); out is what the native send does.
SendMessageOp(mess, out, origin) ==
    LET body == Convert(mess.body)
        t == SendTarget(mess)
    IN IF t.ok
       THEN Op("send_message", mess, NoRes,
               <<[fn |-> t.val.fn, target |-> t.val.target, body |-> body]>>,
               IF out = "ok" THEN {} ELSE {<<out, t.val.fn>>},
               IF out = "ok" THEN None ELSE out, FALSE, origin)
       ELSE Op("send_message", mess, NoRes, <<>>, {<<t.exc, "send_message">>},
               t.exc, FALSE, origin)

\* The messages the framework builds itself.
OutMessages ==
    {Message(b, t, bot_identifier, to) : b \in Bodies, t \in MessageTypes, to \in Identifiers}

SendMessage(mess, out) ==
    /\ pc \in Serving
    /\ last' = SendMessageOp(mess, out, NoMsg)
    /\ UNCHANGED <<serveVars, lookupVars, roomVars, contactVars>>

\* The framework sends the reply it has just built.
SendReply(out) ==
    /\ pc \in Serving
    /\ last.op = "build_reply"
    /\ last.res.ok
    /\ last' = SendMessageOp(last.res.val, out, last.origin)
    /\ UNCHANGED <<serveVars, lookupVars, roomVars, contactVars>>

-----------------------------------------------------------------------------
(* Contact requests.                                                       *)

\* The SetBuddyStatusPendingAuthorization calls _process_contact_request
\* makes for a user.
ProcessCalls(u) ==
    IF AcceptContactRequests
    THEN <<[fn |-> "SetBuddyStatusPendingAuthorization", user |-> u]>>
    ELSE <<>>

\* _process_contact_request(user) for every user of us; an accepted request
\* is no longer waiting.
ProcessContactRequests(us) ==
    /\ authCalls' = [u \in Handles |->
                       authCalls[u] + (IF u \in us THEN Len(ProcessCalls(u)) ELSE 0)]
    /\ waiting' = IF AcceptContactRequests THEN waiting \ us ELSE waiting

\* The contact requests a user sends over a run.
MaxRequests == 1

\* A contact request reaches the native client, from a user with no request
\* open.  The user waits for authorization from then on; an attached client
\* also dispatches the authorization-request event, which its event thread
\* handles later.
RequestArrives(u) ==
    /\ requested[u] < MaxRequests
    /\ u \notin waiting \cup inflight
    /\ pc # "stopped"
    /\ requested' = [requested EXCEPT ![u] = @ + 1]
    /\ waiting' = waiting \cup {u}
    /\ inflight' = IF pc \in Serving THEN inflight \cup {u} ELSE inflight
    /\ UNCHANGED <<serveVars, lookupVars, roomVars, authCalls, last>>

\* _contact_request_event_handler(user)
ContactRequestEvent(u) ==
    /\ pc \in Serving
    /\ u \in inflight
    /\ inflight' = inflight \ {u}
    /\ ProcessContactRequests({u})
    /\ last' = Op("contact_request_event", u, NoRes, ProcessCalls(u), {}, None, FALSE, NoMsg)
    /\ UNCHANGED <<serveVars, lookupVars, roomVars, requested>>

-----------------------------------------------------------------------------
(* serve_forever, statement by statement.                                  *)

Attach ==
    /\ pc = "init"
    /\ pc' = "attached"
    /\ UNCHANGED <<config, bot_identifier, lookupVars, roomVars, contactVars, last>>

ConnectCallback ==
    /\ pc = "attached"
    /\ pc' = "connected"
    /\ UNCHANGED <<config, bot_identifier, lookupVars, roomVars, contactVars, last>>

SetBotIdentifier ==
    /\ pc = "connected"
    /\ bot_identifier' = SkypeUser(BotHandle)
    /\ pc' = "identified"
    /\ UNCHANGED <<config, lookupVars, roomVars, contactVars, last>>

\* for user in self.skype.UsersWaitingAuthorization: _process_contact_request(user)
ProcessWaiting ==
    /\ pc = "identified"
    /\ ProcessContactRequests(waiting)
    /\ pc' = "sleeping"
    /\ UNCHANGED <<config, bot_identifier, lookupVars, roomVars, inflight, requested, last>>

\* KeyboardInterrupt: disconnect_callback(), and serve_forever returns.
Interrupt ==
    /\ pc = "sleeping"
    /\ pc' = "stopped"
    /\ UNCHANGED <<config, bot_identifier, lookupVars, roomVars, contactVars, last>>

ServeForever == Attach \/ ConnectCallback \/ SetBotIdentifier \/ ProcessWaiting \/ Interrupt

-----------------------------------------------------------------------------
(* Identifier lookup.                                                      *)

\* query_room(room); out is what reading skype.Chats does.
QueryRoomOp(t, out) ==
    LET found == {c \in chats : ChatName(c) = t}
    IN IF out # "ok" THEN Raise(out)
       ELSE IF Cardinality(found) = 1
            THEN Ret(SkypeChatroom(CHOOSE c \in found : TRUE))
            ELSE Raise("RoomDoesNotExistError")

\* The except clause around query_room() in build_identifier.
QueryRoomCaught(e) == e = "RoomDoesNotExistError"

\* LookupOp with the conversations asked before the buddy list.
LookupOpRoomFirst(t, out) ==
    LET onList == {f \in friends : f = t}
        room == QueryRoomOp(t, out)
        inDir == {u \in SearchForUsers(t) : u = t}
        qFriends == <<[fn |-> "Friends"]>>
        qChats == <<[fn |-> "Chats"]>>
        qSearch == <<[fn |-> "SearchForUsers"]>>
    IN IF room.ok
       THEN [res |-> room, calls |-> qChats, raised |-> {}]
       ELSE IF ~QueryRoomCaught(room.exc)
       THEN [res |-> room, calls |-> qChats, raised |-> {<<room.exc, "query_room">>}]
       ELSE IF Cardinality(onList) = 1
       THEN [res |-> Ret(SkypeUser(CHOOSE f \in onList : TRUE)),
             calls |-> qChats \o qFriends, raised |-> {<<room.exc, "query_room">>}]
       ELSE IF Cardinality(inDir) = 1
       THEN [res |-> Ret(SkypeUser(CHOOSE u \in inDir : TRUE)),
             calls |-> qChats \o qFriends \o qSearch,
             raised |-> {<<room.exc, "query_room">>}]
       ELSE [res |-> Raise("ValueError"), calls |-> qChats \o qFriends \o qSearch,
             raised |-> {<<room.exc, "query_room">>, <<"ValueError", "build_identifier">>}]

\* The body of build_identifier: the buddy list, then the conversations,
\* then the directory.
LookupOp(t, out) ==
    LET onList == {f \in friends : f = t}
        room == QueryRoomOp(t, out)
        inDir == {u \in SearchForUsers(t) : u = t}
        qFriends == <<[fn |-> "Friends"]>>
        qChats == <<[fn |-> "Chats"]>>
        qSearch == <<[fn |-> "SearchForUsers"]>>
    IN IF Cardinality(onList) = 1
       THEN [res |-> Ret(SkypeUser(CHOOSE f \in onList : TRUE)), calls |-> qFriends,
             raised |-> {}]
       ELSE IF room.ok
       THEN [res |-> room, calls |-> qFriends \o qChats, raised |-> {}]
       ELSE IF ~QueryRoomCaught(room.exc)
       THEN [res |-> room, calls |-> qFriends \o qChats,
             raised |-> {<<room.exc, "query_room">>}]
       ELSE IF Cardinality(inDir) = 1
       THEN [res |-> Ret(SkypeUser(CHOOSE u \in inDir : TRUE)),
             calls |-> qFriends \o qChats \o qSearch,
             raised |-> {<<room.exc, "query_room">>}]
       ELSE [res |-> Raise("ValueError"), calls |-> qFriends \o qChats \o qSearch,
             raised |-> {<<room.exc, "query_room">>, <<"ValueError", "build_identifier">>}]

\* CachePut of an lru_cache(maxsize=1).
CachePutEvicting(c, t, id) == [x \in Texts |-> IF x = t THEN id ELSE Unset]

\* lru_cache(maxsize=None): a returned value is kept under its argument;
\* nothing is ever evicted.
CachePut(c, t, id) == [c EXCEPT ![t] = id]

\* build_identifier(text_representation) behind its lru_cache; out is the
\* outcome of reading skype.Chats, when the call reads it.
BuildIdentifier(t, out) ==
    /\ pc \in Serving
    /\ out # "ok" => cache[t] = Unset /\ t \notin friends
    /\ LET arg == [text |-> t, out |-> out, known |-> firstRet[t] # Unset,
                   friend |-> t \in friends,
                   chat |-> \E c \in chats : ChatName(c) = t,
                   dir |-> t \in directory]
       IN IF cache[t] # Unset
          THEN /\ last' = Op("build_identifier", arg, Ret(cache[t]), <<>>, {}, None,
                             TRUE, NoMsg)
               /\ UNCHANGED <<cache, firstRet>>
          ELSE LET r == LookupOp(t, out)
               IN /\ last' = Op("build_identifier", arg, r.res, r.calls, r.raised,
                                IF r.res.ok THEN None ELSE r.res.exc, FALSE, NoMsg)
                  /\ cache' = IF r.res.ok THEN CachePut(cache, t, r.res.val) ELSE cache
                  /\ firstRet' = IF r.res.ok /\ firstRet[t] = Unset
                                 THEN [firstRet EXCEPT ![t] = r.res.val] ELSE firstRet
    /\ UNCHANGED <<serveVars, friends, chats, directory, roomVars, contactVars>>

\* query_room(room) called by the framework.
QueryRoom(t, out) ==
    /\ pc \in Serving
    /\ LET r == QueryRoomOp(t, out)
       IN last' = Op("query_room", t, r, <<[fn |-> "Chats"]>>,
                     IF r.ok THEN {} ELSE {<<r.exc, "query_room">>},
                     IF r.ok THEN None ELSE r.exc, FALSE, NoMsg)
    /\ UNCHANGED <<serveVars, lookupVars, roomVars, contactVars>>

\* The native client's buddy list, conversations and directory change.
FriendsChange(h) ==
    /\ \/ h \notin friends /\ friends' = friends \cup {h}
       \/ h \in friends /\ friends' = friends \ {h}
    /\ UNCHANGED <<serveVars, chats, directory, cache, firstRet, roomVars, contactVars, last>>

ChatsChange(c) ==
    /\ \/ c \notin chats /\ chats' = chats \cup {c}
       \/ c \in chats /\ chats' = chats \ {c}
    /\ UNCHANGED <<serveVars, friends, directory, cache, firstRet, roomVars, contactVars, last>>

DirectoryChange(u) ==
    /\ \/ u \notin directory /\ directory' = directory \cup {u}
       \/ u \in directory /\ directory' = directory \ {u}
    /\ UNCHANGED <<serveVars, friends, chats, cache, firstRet, roomVars, contactVars, last>>

-----------------------------------------------------------------------------
(* Rooms.                                                                  *)

\* SkypeChatroom.occupants: one occupant per member, whatever the status.
OccupantsOp(c) == Ret({SkypeChatroomOccupant(m, c) : m \in chatMembers[c]})

OccupantsRead(c) ==
    /\ pc \in Serving
    /\ c \in chats
    /\ LET r == OccupantsOp(c)
       IN last' = Op("occupants", [chat |-> c, joined |-> Joined(c),
                                   members |-> chatMembers[c]], r, <<[fn |-> "Members"]>>,
                     IF r.ok THEN {} ELSE {<<r.exc, "occupants">>},
                     IF r.ok THEN None ELSE r.exc, FALSE, NoMsg)
    /\ UNCHANGED <<serveVars, lookupVars, roomVars, contactVars>>

\* SkypeChatroom.join: Chat.Join()
Join(c) ==
    /\ pc \in Serving
    /\ c \in chats
    /\ chatStatus' = [chatStatus EXCEPT ![c] = "MULTI_SUBSCRIBED"]
    /\ chatMembers' = [chatMembers EXCEPT ![c] = @ \cup {BotHandle}]
    /\ last' = Op("join", c, NoRes, <<[fn |-> "Join"]>>, {}, None, FALSE, NoMsg)
    /\ UNCHANGED <<serveVars, lookupVars, contactVars>>

\* SkypeChatroom.leave: Chat.Leave()
Leave(c) ==
    /\ pc \in Serving
    /\ c \in chats
    /\ chatStatus' = [chatStatus EXCEPT ![c] = "UNSUBSCRIBED"]
    /\ chatMembers' = [chatMembers EXCEPT ![c] = @ \ {BotHandle}]
    /\ last' = Op("leave", c, NoRes, <<[fn |-> "Leave"]>>, {}, None, FALSE, NoMsg)
    /\ UNCHANGED <<serveVars, lookupVars, contactVars>>

\* Another user joins or leaves a conversation.
MembersChange(c, u) ==
    /\ \/ u \notin chatMembers[c] /\ chatMembers' = [chatMembers EXCEPT ![c] = @ \cup {u}]
       \/ u \in chatMembers[c] /\ chatMembers' = [chatMembers EXCEPT ![c] = @ \ {u}]
    /\ UNCHANGED <<serveVars, lookupVars, chatStatus, contactVars, last>>

-----------------------------------------------------------------------------
(* Specifications.                                                         *)

MessageEvents ==
    \E m \in SkypeMsgs, status \in MessageStatuses, cb \in CallbackOutcomes,
       seen \in MarkAsSeenOutcomes : MessageEvent(m, status, cb, seen)

Replies ==
    \/ \E text \in Bodies, private \in BOOLEAN : BuildReply(text, private)
    \/ \E mess \in OutMessages, out \in SendOutcomes : SendMessage(mess, out)
    \/ \E out \in SendOutcomes : SendReply(out)

Contacts ==
    \/ \E u \in Handles : RequestArrives(u)
    \/ \E u \in Handles : ContactRequestEvent(u)

Lookups ==
    \/ \E t \in Texts, out \in SendOutcomes : BuildIdentifier(t, out)
    \/ \E t \in Texts, out \in SendOutcomes : QueryRoom(t, out)

LookupChanges ==
    \/ \E h \in Handles : FriendsChange(h)
    \/ \E c \in ChatIds : ChatsChange(c)
    \/ \E u \in Handles : DirectoryChange(u)

RoomOps ==
    \/ \E c \in ChatIds : OccupantsRead(c)
    \/ \E c \in ChatIds : Join(c)
    \/ \E c \in ChatIds : Leave(c)

RoomChanges == \E c \in ChatIds, u \in Handles : MembersChange(c, u)

Next == ServeForever \/ MessageEvents \/ Replies \/ Contacts \/ Lookups \/ LookupChanges \/ RoomOps
        \/ RoomChanges
Spec == Init /\ [][Next]_vars

\* The backend and the incoming messages.
MsgNext == ServeForever \/ MessageEvents \/ RoomChanges
SpecMsg == InitDefault /\ [][MsgNext]_vars

\* The backend, the incoming messages, the replies and the outgoing messages.
ReplyNext == ServeForever \/ MessageEvents \/ Replies
SpecReply == InitDefault /\ [][ReplyNext]_vars

\* The backend and the contact requests.
ContactNext == ServeForever \/ Contacts
SpecContact == Init /\ [][ContactNext]_vars

\* The backend and the identifier lookups.
LookupNext == ServeForever \/ Lookups \/ LookupChanges
SpecLookup == InitDefault /\ [][LookupNext]_vars

\* The backend and its rooms.
RoomNext == ServeForever \/ RoomOps \/ RoomChanges
SpecRoom == InitDefault /\ [][RoomNext]_vars

\* Every adapter operation, the native client's state left as it is.
OpsNext == ServeForever \/ MessageEvents \/ Replies \/ Lookups \/ RoomOps
SpecOps == InitDefault /\ [][OpsNext]_vars

-----------------------------------------------------------------------------
(* The claims.                                                             *)

Callbacks == CallsOf(last.calls, "callback_message")

\* C1: every message event whose message has status RECEIVED hands exactly
\* one converted message to callback_message; an event with any other
\* status hands none.
C1_ReceivedHandedOnce ==
    last.op = "message_event" =>
        IF last.arg.msg.Status = "RECEIVED"
        THEN Len(Callbacks) = 1 /\ Callbacks[1].msg.body = last.arg.msg.Body
        ELSE Len(Callbacks) = 0

\* C2: a message _make_message produces is a groupchat message (from the
\* sender as occupant of the room, to the room) exactly when the
\* conversation has more than 2 members, and else a chat message (from the
\* sending user, to the bot's identifier); the body is the message's body.
C2_ClassifiedByMemberCount ==
    last.op = "message_event" /\ last.res.ok =>
        LET m == last.arg.msg
            msg == last.res.val
        IN /\ msg.type = "groupchat" <=> last.arg.members > 2
           /\ msg.type \in {"groupchat", "chat"}
           /\ msg.body = m.Body
           /\ msg.type = "groupchat" =>
                /\ msg.frm = [kind |-> "occupant", handle |-> m.Sender,
                              room |-> [kind |-> "room", chat |-> m.Chat]]
                /\ msg.to = [kind |-> "room", chat |-> m.Chat]
           /\ msg.type = "chat" =>
                /\ msg.frm = [kind |-> "user", handle |-> m.Sender]
                /\ msg.to = [kind |-> "user", handle |-> BotHandle]

C2_Witness ==
    /\ last.op = "message_event"
    /\ last.res.ok
    /\ last.arg.members = 3
    /\ last.res.val.type = "groupchat"
    /\ last.arg.msg.Body = "*hi*"

\* C3: with SKYPE_ACCEPT_CONTACT_REQUESTS true (or absent) a contact request
\* is accepted by exactly one SetBuddyStatusPendingAuthorization call on its
\* user, and with it false no such call is made.
C3_ExactlyOneAuthorization ==
    \A u \in Handles :
        IF AcceptContactRequests
        THEN /\ authCalls[u] <= requested[u]
             /\ u \notin waiting => authCalls[u] = requested[u]
        ELSE authCalls[u] = 0

ValidRecipient(mess) ==
    IF mess.type = "chat" THEN mess.to.kind \in {"user", "occupant"}
    ELSE mess.to.kind \in {"occupant", "room"}

\* C4: a send_message call with a valid recipient makes exactly one native
\* send: a chat message goes to the recipient's handle, any other message
\* into the conversation of the occupant's room or of the room itself.
C4_OneNativeSend ==
    last.op = "send_message" /\ ValidRecipient(last.arg) =>
        LET mess == last.arg
        IN /\ Len(last.calls) = 1
           /\ last.calls[1].body = Convert(mess.body)
           /\ IF mess.type = "chat"
              THEN /\ last.calls[1].fn = "Skype.SendMessage"
                   /\ last.calls[1].target = mess.to.handle
              ELSE /\ last.calls[1].fn = "Chat.SendMessage"
                   /\ last.calls[1].target =
                        IF mess.to.kind = "occupant" THEN mess.to.room.chat
                        ELSE mess.to.chat

C4_Witness ==
    /\ last.op = "send_message"
    /\ last.arg.type = "groupchat"
    /\ last.arg.to.kind = "occupant"
    /\ Len(last.calls) = 1
    /\ last.calls[1].target = "c2"

CaughtAtMarkAsSeen(e) == last.op = "message_event" /\ e = <<"SkypeError", "MarkAsSeen">>
CaughtAtQueryRoom(e) ==
    last.op = "build_identifier" /\ e = <<"RoomDoesNotExistError", "query_room">>

C6_Memoized ==
    last.op = "build_identifier" /\ last.arg.known =>
        /\ last.res = Ret(firstRet[last.arg.text])
        /\ Len(last.calls) = 0

\* A memoized answer that differs from what the native client now holds.
C6_Witness ==
    /\ last.op = "build_identifier"
    /\ last.arg.known
    /\ last.res.ok
    /\ last.res.val.kind = "room"
    /\ last.arg.friend

\* C7: reading the occupants of a room that is not joined raises
\* MUCNotJoinedError; for a joined room it returns one occupant per member.
C7_OccupantsRequireJoin ==
    last.op = "occupants" =>
        IF last.arg.joined
        THEN /\ last.res.ok
             /\ last.res.val = {[kind |-> "occupant", handle |-> m,
                                 room |-> [kind |-> "room", chat |-> last.arg.chat]] :
                                m \in last.arg.members}
        ELSE last.propagated = "MUCNotJoinedError"

\* What the priority order of C8 gives for the record of a lookup.
Resolved(arg) ==
    IF arg.friend THEN Ret([kind |-> "user", handle |-> arg.text])
    ELSE IF arg.chat
         THEN Ret([kind |-> "room", chat |-> CHOOSE c \in ChatIds : ChatName(c) = arg.text])
         ELSE IF arg.dir THEN Ret([kind |-> "user", handle |-> arg.text])
              ELSE Raise("ValueError")

Searched == Len(CallsOf(last.calls, "SearchForUsers")) > 0

\* C8 as written: every build_identifier(t) answers by the priority order
\* (friend, then conversation, then directory, else ValueError) and searches
\* the directory only when neither friend nor conversation matches.
C8_FixedPriority ==
    last.op = "build_identifier" /\ last.arg.out = "ok" =>
        /\ last.res = Resolved(last.arg)
        /\ Searched <=> ~last.arg.friend /\ ~last.arg.chat

\* C8 as amended: a build_identifier(t) that no earlier call has answered
\* (nothing is memoized for t) answers by the priority order and searches
\* the directory only when neither friend nor conversation matches.
C8_FixedPriorityUnmemoized ==
    last.op = "build_identifier" /\ last.arg.out = "ok" /\ ~last.arg.known =>
        /\ last.res = Resolved(last.arg)
        /\ Searched <=> ~last.arg.friend /\ ~last.arg.chat

C8_Witness ==
    /\ last.op = "build_identifier"
    /\ ~last.arg.known
    /\ last.arg.friend
    /\ last.arg.chat
    /\ last.res = Ret([kind |-> "user", handle |-> "ann"])

C10_IdentifierSetBeforeEvents ==
    last.op = "message_event" =>
        /\ last.bot = [kind |-> "user", handle |-> BotHandle]
        /\ \A i \in 1..Len(Callbacks) :
             Callbacks[i].msg.type = "chat" => Callbacks[i].msg.to = last.bot

====
